---------------------------- MODULE Spec2Model ----------------------------
(***************************************************************************)
(* The array-namespace adapter of parallelproj (python/parallelproj/       *)
(* backend.py): module initialisation, calc_chunks, is_cuda_array,         *)
(* joseph3d_fwd and joseph3d_back with their three backends (cupy raw      *)
(* kernel, multi-GPU CUDA library, OpenMP C library).                      *)
(*                                                                         *)
(* The native kernels are not part of the python sources.  They are        *)
(* modelled from the specification on a line of NVox voxels: a LOR is a    *)
(* pair (start point, end point), a point is a voxel index or NVox (a      *)
(* point outside the image), and the kernel of LOR k taps voxel v with the *)
(* weight Weight(xstart[k], xend[k], v).  Arithmetic is exact (integers).  *)
(***************************************************************************)
EXTENDS Integers, Sequences, FiniteSets, TLC

(***************************************************************************)
(* Bounds of the model.                                                    *)
(***************************************************************************)
MaxLORs == 2        \* LORs in one call
MaxChunks == 3      \* num_chunks of one call
MaxDevices == 2     \* CUDA devices of the machine
NVox == 2           \* voxels of the image
MaxLive == 1        \* device images alive at once before the caller stops calling

Voxels == 0 .. (NVox - 1)
Starts == {0, NVox}            \* start points used for LORs
Ends == {NVox - 1, NVox}       \* end points used for LORs
ImgVals == {0, 1}
PayVals == {0, 1}

Min(a, b) == IF a < b THEN a ELSE b

\* python s[lo:hi] of a list / 1-d array, 0-based, clipped to the length
Slice(s, lo, hi) == SubSeq(s, lo + 1, Min(hi, Len(s)))

\* an array of n zeros (np.zeros / cp.zeros)
Zeros(n) == [k \in 1 .. n |-> 0]

\* mutant: the image buffer is allocated without being set to zero
ZeroImg_uninitialised == [v \in Voxels |-> 1]

\* an image of zeros (np.zeros(img_shape) / cp.zeros(img_shape))
ZeroImg == [v \in Voxels |-> 0]

RECURSIVE SumTo(_, _)
SumTo(f, n) == IF n = 0 THEN 0 ELSE f[n] + SumTo(f, n - 1)

RECURSIVE SumVox(_, _)
SumVox(f, v) == IF v < 0 THEN 0 ELSE f[v] + SumVox(f, v - 1)

(***************************************************************************)
(* Array frameworks and devices (array_api_compat namespaces).             *)
(***************************************************************************)
CpuDev == [type |-> "cpu", index |-> 0]
CudaDev(d) == [type |-> "cuda", index |-> d]
NumpyArr == [ns |-> "numpy", dev |-> CpuDev]
TorchCpu == [ns |-> "torch", dev |-> CpuDev]
CupyArr(d) == [ns |-> "cupy", dev |-> CudaDev(d)]
TorchCuda(d) == [ns |-> "torch", dev |-> CudaDev(d)]
NoArray == [ns |-> "none", dev |-> CpuDev]

is_cuda_array(x) ==
    IF x.ns = "cupy" THEN TRUE
    ELSE IF x.ns = "torch" THEN x.dev.type = "cuda"
    ELSE FALSE

\* np.asarray(x, dtype = np.float32): numpy refuses arrays in device memory
np_asarray_ok(x) == x.dev.type = "cpu"

(***************************************************************************)
(* calc_chunks: the list chunks is built by the loop of the source.        *)
(***************************************************************************)
\* mutant: the remainder goes to one chunk too many
nLORs_chunck_le(k, rem, div) == IF k <= rem THEN div + 1 ELSE div

nLORs_chunck(k, rem, div) == IF k < rem THEN div + 1 ELSE div

RECURSIVE calc_chunks_loop(_, _, _, _, _)
calc_chunks_loop(chunks, k, num, rem, div) ==
    IF k >= num THEN chunks
    ELSE calc_chunks_loop(Append(chunks, chunks[k + 1] + nLORs_chunck(k, rem, div)),
                          k + 1, num, rem, div)

calc_chunks(n, num) == calc_chunks_loop(<<0>>, 0, num, n % num, n \div num)

(***************************************************************************)
(* The native kernels (not in the python sources): geometry and taps.      *)
(***************************************************************************)
\* weight of the tap of LOR (s, e) on voxel v; 0: the LOR does not touch v
Weight(s, e, v) == (IF s = v THEN 1 ELSE 0) + (IF e = v THEN 2 ELSE 0)

\* the first voxel at or after from that LOR (s, e) taps; NVox when none is left
RECURSIVE NextTap(_, _, _)
NextTap(s, e, from) ==
    IF from >= NVox THEN NVox
    ELSE IF Weight(s, e, from) > 0 THEN from
    ELSE NextTap(s, e, from + 1)

\* line integral of image x along LOR (s, e)
RECURSIVE LineSum(_, _, _, _)
LineSum(s, e, x, v) ==
    IF v < 0 THEN 0 ELSE Weight(s, e, v) * x[v] + LineSum(s, e, x, v - 1)

\* the device that handles LOR j (1-based) of a library call on n LORs
DevOf(j, n, ndev) == ((j - 1) * ndev) \div n

VARIABLES
    env,                        \* the machine: nvidia-smi, cupy, CUDA devices
    mod,                        \* module initialisation: unloaded / ready / failed
    cuda_present,
    cupy_enabled,
    cp_defined,                 \* "import cupy as cp" was executed
    num_visible_cuda_devices,
    lib_cuda_defined,           \* lib_parallelproj_cuda is bound
    kernels_defined,            \* _joseph3d_fwd_cuda_kernel, _joseph3d_back_cuda_kernel
    lookup,                     \* the library lookup the module body is at, or NoLookup
    pc,                         \* position of the caller in joseph3d_fwd / joseph3d_back
    op,                         \* "fwd" or "back"
    xstart, xend,               \* LOR end points, one entry per LOR
    img,                        \* the image to be projected (fwd)
    img_fwd,                    \* output of fwd, payload of back
    back_img,                   \* output of back
    num_chunks,
    primary,                    \* framework and device of img (fwd) / img_fwd (back)
    other,                      \* framework and device of xstart, xend, img_origin, voxsize
    defect,                     \* which precondition the inputs violate, or "none"
    nLORs,
    ic,                         \* chunk boundaries
    i,                          \* loop index of the chunk loop
    d_img,                      \* device replicas of the image, or NoHandle
    kern,                       \* arguments of the running kernel, or NoKernel
    prog,                       \* progress of the kernel's per-LOR workers
    result,                     \* framework and device of the output array
    out_shape,                  \* shape of the output array
    out_dtype,                  \* dtype of the output array
    exc,                        \* the exception raised, or "none"
    invoked,                    \* backends invoked by the current call
    live,                       \* device images allocated and not freed
    launched,                   \* (lo, hi) of the chunks launched by the current call
    events,                     \* CUDA library calls made by the current call, in order
    writes,                     \* writes received by each output entry (fwd)
    held,                       \* a forward result the caller keeps, or NoHeld
    earlier,                    \* the forward call the caller repeats, or NoEarlier
    tof,                        \* a TOF sinogram forward projection of one LOR, or NoTof
    grid                        \* the launch geometry of a raw kernel, or NoGrid

envvars == <<env>>
modvars == <<mod, cuda_present, cupy_enabled, cp_defined, num_visible_cuda_devices,
             lib_cuda_defined, kernels_defined, lookup>>
lorvars == <<op, xstart, xend, num_chunks, primary, other, defect, nLORs>>
argvars == <<lorvars, img>>
vars == <<env, mod, cuda_present, cupy_enabled, cp_defined, num_visible_cuda_devices,
          lib_cuda_defined, kernels_defined, lookup, pc, op, xstart, xend, img, img_fwd,
          back_img, num_chunks, primary, other, defect, nLORs, ic, i, d_img, kern,
          prog, result, out_shape, out_dtype, exc, invoked, live, launched, events, writes, held, earlier, tof, grid>>

NoHandle == <<>>
NoKernel == [lib |-> "none"]
NoHeld == [set |-> FALSE]
NoLookup == [lib |-> "none"]
NoEarlier == [set |-> FALSE]
NoTof == [set |-> FALSE]
NoGrid == [set |-> FALSE]

Envs == [smi : BOOLEAN, cupy : BOOLEAN, gpus : 0 .. MaxDevices]

Unloaded ==
    /\ env \in Envs
    /\ mod = "unloaded"
    /\ cuda_present = FALSE
    /\ cupy_enabled = FALSE
    /\ cp_defined = FALSE
    /\ num_visible_cuda_devices = 0
    /\ lib_cuda_defined = FALSE
    /\ kernels_defined = FALSE
    /\ lookup = NoLookup
    /\ pc = "idle"
    /\ op = "fwd"
    /\ xstart = <<>>
    /\ xend = <<>>
    /\ img = ZeroImg
    /\ img_fwd = <<>>
    /\ back_img = ZeroImg
    /\ num_chunks = 1
    /\ primary = NumpyArr
    /\ other = NumpyArr
    /\ defect = "none"
    /\ nLORs = 0
    /\ ic = <<>>
    /\ i = 0
    /\ d_img = NoHandle
    /\ kern = NoKernel
    /\ prog = <<>>
    /\ result = NoArray
    /\ out_shape = <<>>
    /\ out_dtype = "none"
    /\ exc = "none"
    /\ invoked = {}
    /\ live = 0
    /\ launched = <<>>
    /\ events = <<>>
    /\ writes = <<>>
    /\ held = NoHeld
    /\ earlier = NoEarlier

Init ==
    /\ Unloaded
    /\ tof = NoTof
    /\ grid = NoGrid

(***************************************************************************)
(* Module initialisation (the top-level statements of backend.py), one     *)
(* step per library lookup and per library load.  What the environment     *)
(* variable of a library and the system loader hold is a fact of the       *)
(* machine, read when the lookup is made: "nothing" (variable not set,     *)
(* find_library returns None), "lib" (a file that loads), "nolib" (a name  *)
(* that load_library cannot open).                                         *)
(***************************************************************************)
Found == {"nothing", "lib", "nolib"}

None == [from |-> "nowhere", holds |-> "nothing"]

\* mutant: the system loader is probed first
lib_fname_loader_first(var, loader) ==
    IF loader # "nothing" THEN [from |-> "loader", holds |-> loader]
    ELSE IF var # "nothing" THEN [from |-> "env", holds |-> var]
    ELSE None

\* lib_parallelproj_*_fname: os.environ[...] when the variable is set,
\* find_library(...) otherwise
lib_fname(var, loader) ==
    IF var # "nothing" THEN [from |-> "env", holds |-> var]
    ELSE IF loader # "nothing" THEN [from |-> "loader", holds |-> loader]
    ELSE None

\* lib_parallelproj_*_fname is None
fname_is_None(fname) == fname = None

\* no projector is called while the module body runs
NoCall ==
    UNCHANGED <<env, pc, op, xstart, xend, img, img_fwd, back_img, num_chunks,
                primary, other, defect, nLORs, ic, i, d_img, kern, prog, result, out_shape, out_dtype,
                exc, invoked, live, launched, events, writes, held, earlier, tof, grid>>

ImportFails(status) ==
    /\ mod' = status
    /\ UNCHANGED <<cuda_present, cupy_enabled, cp_defined, num_visible_cuda_devices,
                   lib_cuda_defined, kernels_defined, lookup>>

\* nvidia-smi, cupy; the name of the C library
LookupC ==
    /\ mod = "unloaded"
    /\ NoCall
    /\ cuda_present' = env.smi
    /\ cupy_enabled' = env.cupy
    /\ cp_defined' = env.cupy
    /\ \E var \in Found, loader \in Found :
          lookup' = [lib |-> "c", var |-> var, loader |-> loader,
                     fname |-> lib_fname(var, loader)]
    /\ mod' = "lookup_c"
    /\ UNCHANGED <<num_visible_cuda_devices, lib_cuda_defined, kernels_defined>>

\* raise ImportError, or npct.load_library of the C library
LoadC ==
    /\ mod = "lookup_c"
    /\ NoCall
    /\ IF fname_is_None(lookup.fname)
       THEN ImportFails("ImportError")
       ELSE IF lookup.fname.holds = "nolib"
       THEN ImportFails("OSError")
       ELSE /\ mod' = IF cuda_present THEN "loaded_c" ELSE "ready"
            /\ lookup' = NoLookup
            /\ UNCHANGED <<cuda_present, cupy_enabled, cp_defined,
                           num_visible_cuda_devices, lib_cuda_defined, kernels_defined>>

\* if cuda_present: the name of the CUDA library
LookupCuda ==
    /\ mod = "loaded_c"
    /\ NoCall
    /\ \E var \in Found, loader \in Found :
          lookup' = [lib |-> "cuda", var |-> var, loader |-> loader,
                     fname |-> lib_fname(var, loader)]
    /\ mod' = "lookup_cuda"
    /\ UNCHANGED <<cuda_present, cupy_enabled, cp_defined, num_visible_cuda_devices,
                   lib_cuda_defined, kernels_defined>>

\* mutant: cupy stays enabled whatever the device count
cupy_enabled_kept(count, enabled) == enabled

\* if (num_visible_cuda_devices == 0) and cupy_enabled: cupy_enabled = False
cupy_enabled_if_devices(count, enabled) == IF count = 0 THEN FALSE ELSE enabled

\* raise ImportError, or npct.load_library of the CUDA library, the device
\* count and the raw kernels
LoadCuda ==
    /\ mod = "lookup_cuda"
    /\ NoCall
    /\ IF fname_is_None(lookup.fname)
       THEN ImportFails("ImportError")
       ELSE IF lookup.fname.holds = "nolib"
       THEN ImportFails("OSError")
       ELSE \E kernel_files \in 0 .. 2 :
              LET count == env.gpus
                  enabled == cupy_enabled_if_devices(count, cupy_enabled)
              IN  /\ lib_cuda_defined' = TRUE
                  /\ num_visible_cuda_devices' = count
                  /\ cupy_enabled' = enabled
                  /\ IF enabled /\ kernel_files = 0
                     THEN /\ mod' = "ImportError"
                          /\ kernels_defined' = FALSE
                          /\ UNCHANGED lookup
                     ELSE /\ mod' = "ready"
                          /\ kernels_defined' = enabled
                          /\ lookup' = NoLookup
                  /\ UNCHANGED <<cuda_present, cp_defined>>

ImportModule ==
    \/ LookupC
    \/ LoadC
    \/ LookupCuda
    \/ LoadCuda

(***************************************************************************)
(* The inputs of a call.                                                   *)
(***************************************************************************)
Defects == {"xend_short", "xstart_size", "payload_len", "origin_ndim"}

CudaDevs(e) == 0 .. (e.gpus - 1)

\* the arrays a caller can hold on machine e
ArraysOf(e) ==
    {NumpyArr, TorchCpu}
        \cup {TorchCuda(d) : d \in CudaDevs(e)}
        \cup (IF e.cupy THEN {CupyArr(d) : d \in CudaDevs(e)} ELSE {})

Ones(n) == [k \in 1 .. n |-> 1]
OnesImg == [v \in Voxels |-> 1]
CanonStart(n) == [k \in 1 .. n |-> 0]
CanonEnd(n) == [k \in 1 .. n |-> NVox - 1]

FwdInput(xs, xe, x, nc, prim, oth, dfct) ==
    [op |-> "fwd", xstart |-> xs, xend |-> xe, img |-> x, img_fwd |-> <<>>,
     num_chunks |-> nc, primary |-> prim, other |-> oth, defect |-> dfct]

BackInput(xs, xe, y, nc, prim, oth, dfct) ==
    [op |-> "back", xstart |-> xs, xend |-> xe, img |-> ZeroImg, img_fwd |-> y,
     num_chunks |-> nc, primary |-> prim, other |-> oth, defect |-> dfct]

\* valid calls with every geometry, image and payload, all arrays in one framework
NumericPrimaries(e) == {NumpyArr} \cup (IF e.cupy /\ e.gpus > 0 THEN {CupyArr(0)} ELSE {})

NumericInputs(e) ==
    IF ~(e.smi /\ e.cupy) THEN {}
    ELSE UNION {
           {FwdInput(xs, xe, x, nc, prim, prim, "none") :
                xs \in [1 .. n -> Starts], xe \in [1 .. n -> Ends],
                x \in [Voxels -> ImgVals], nc \in 1 .. MaxChunks,
                prim \in NumericPrimaries(e)}
           \cup
           {BackInput(xs, xe, y, nc, prim, prim, "none") :
                xs \in [1 .. n -> Starts], xe \in [1 .. n -> Ends],
                y \in [1 .. n -> PayVals], nc \in 1 .. MaxChunks,
                prim \in NumericPrimaries(e)}
           : n \in 0 .. MaxLORs}

\* valid calls with the arrays in every framework and on every device
FrameworkInputs(e) ==
    LET n == MaxLORs
    IN  {FwdInput(CanonStart(n), CanonEnd(n), OnesImg, nc, prim, oth, "none") :
             nc \in {1, MaxChunks}, prim \in ArraysOf(e), oth \in ArraysOf(e)}
        \cup
        {BackInput(CanonStart(n), CanonEnd(n), Ones(n), nc, prim, oth, "none") :
             nc \in {1, MaxChunks}, prim \in ArraysOf(e), oth \in ArraysOf(e)}

\* calls whose inputs violate a precondition
DefectArg(a, dfct) ==
    IF dfct = "xend_short"
    THEN [a EXCEPT !.defect = dfct, !.xend = SubSeq(a.xend, 1, Len(a.xend) - 1)]
    ELSE IF dfct = "payload_len"
    THEN [a EXCEPT !.defect = dfct, !.img_fwd = SubSeq(a.img_fwd, 1, Len(a.img_fwd) - 1)]
    ELSE [a EXCEPT !.defect = dfct]

DefectPrimaries(e) ==
    {NumpyArr} \cup {TorchCuda(d) : d \in CudaDevs(e) \cap {0}}

DefectInputs(e) ==
    LET n == MaxLORs
    IN  {DefectArg(FwdInput(CanonStart(n), CanonEnd(n), OnesImg, nc, prim, prim, "none"),
                   dfct) :
             nc \in {1, MaxChunks}, prim \in DefectPrimaries(e),
             dfct \in Defects \ {"payload_len"}}
        \cup
        {DefectArg(BackInput(CanonStart(n), CanonEnd(n), Ones(n), nc, prim, prim, "none"),
                   dfct) :
             nc \in {1, MaxChunks}, prim \in DefectPrimaries(e), dfct \in Defects}

Inputs(e) == NumericInputs(e) \cup FrameworkInputs(e) \cup DefectInputs(e)

\* the payloads for the adjoint of a held forward projection
AdjointInputs(h) ==
    {BackInput(h.xstart, h.xend, y, nc, h.primary, h.primary, "none") :
         y \in [1 .. Len(h.xstart) -> PayVals], nc \in 1 .. MaxChunks}

(***************************************************************************)
(* joseph3d_fwd / joseph3d_back: entry.                                    *)
(***************************************************************************)
Enter(a) ==
    /\ mod = "ready"
    /\ pc = "idle"
    /\ live < MaxLive
    /\ op' = a.op
    /\ xstart' = a.xstart
    /\ xend' = a.xend
    /\ img' = a.img
    /\ img_fwd' = a.img_fwd
    /\ back_img' = ZeroImg
    /\ num_chunks' = a.num_chunks
    /\ primary' = a.primary
    /\ other' = a.other
    /\ defect' = a.defect
    /\ nLORs' = Len(a.xstart)
    /\ pc' = "entry"
    /\ ic' = <<>>
    /\ i' = 0
    /\ d_img' = NoHandle
    /\ kern' = NoKernel
    /\ prog' = <<>>
    /\ result' = NoArray
    /\ out_shape' = <<>>
    /\ out_dtype' = "none"
    /\ exc' = "none"
    /\ invoked' = {}
    /\ launched' = <<>>
    /\ events' = <<>>
    /\ writes' = Zeros(Len(a.xstart))
    /\ UNCHANGED <<envvars, modvars, live, tof, grid>>

\* a call with inputs of the caller's choice
Call ==
    /\ pc = "idle"
    /\ mod = "ready"
    /\ ~held.set
    /\ ~earlier.set
    /\ \E a \in Inputs(env) : Enter(a)
    /\ UNCHANGED <<held, earlier>>

\* the back projection of a payload along the LORs of the held forward projection
CallAdjoint ==
    /\ pc = "idle"
    /\ held.set
    /\ \E a \in AdjointInputs(held) : Enter(a)
    /\ UNCHANGED <<held, earlier>>

(***************************************************************************)
(* Kernel launches and the per-LOR workers of a running kernel.            *)
(***************************************************************************)
\* what a kernel that reads n entries of array s may read: the entries of s,
\* then, past the end of s, any value of S
ReadsOf(s, n, S) ==
    {t \in [1 .. n -> S \cup {s[k] : k \in 1 .. Len(s)}] :
         \A k \in 1 .. Min(n, Len(s)) : t[k] = s[k]}

\* mutant: the caller's primary array is passed in the output position
OutArg_caller == "caller"

\* the array passed in the output position of a kernel: "fresh", the buffer
\* the call allocated with zeros, never "caller", an array of the caller
OutArg == "fresh"

\* the kernel of library lib starts on n LORs xs, xe; fwd writes its output at
\* entries off + 1 .. off + n of the output array, back reads the payload p.
\* The input arrays are passed without a copy: the kernel works on the
\* caller's memory.
Launch(lib, xs, xe, off, n, p, outlen) ==
    /\ \E xe_read \in ReadsOf(xe, n, Ends), p_read \in ReadsOf(p, n, PayVals) :
         /\ kern' = [lib |-> lib, xs |-> xs, xe |-> xe_read, off |-> off, n |-> n,
                     p |-> p_read, out |-> OutArg,
                     oob |-> \/ Len(xe) < n
                             \/ Len(p) < n
                             \/ (op = "fwd" /\ off + n > outlen)]
         /\ prog' = [j \in 1 .. n |->
                        IF op = "fwd" THEN 0 ELSE NextTap(xs[j], xe_read[j], 0)]
    /\ invoked' = invoked \cup {lib}

AllDone == \A j \in 1 .. Len(prog) : prog[j] = NVox

\* the image a forward worker reads
SourceOf(j) ==
    IF kern.lib = "cuda"
    THEN d_img[DevOf(j, kern.n, num_visible_cuda_devices) + 1]
    ELSE img

\* the worker of LOR j of a forward kernel: one line integral, one store
FwdWorker(j) ==
    /\ kern.lib # "none"
    /\ op = "fwd"
    /\ prog[j] = 0
    /\ LET val == LineSum(kern.xs[j], kern.xe[j], SourceOf(j), NVox - 1)
           k == kern.off + j
       IN  IF kern.out = "fresh"
           THEN /\ IF k <= Len(img_fwd)
                   THEN /\ img_fwd' = [img_fwd EXCEPT ![k] = val]
                        /\ writes' = [writes EXCEPT ![k] = @ + 1]
                   ELSE UNCHANGED <<img_fwd, writes>>
                /\ UNCHANGED img
           ELSE /\ IF k - 1 \in Voxels
                   THEN img' = [img EXCEPT ![k - 1] = val]
                   ELSE UNCHANGED img
                /\ UNCHANGED <<img_fwd, writes>>
    /\ prog' = [prog EXCEPT ![j] = NVox]
    /\ UNCHANGED <<envvars, modvars, lorvars, pc, back_img, ic, i, d_img, kern, result, out_shape, out_dtype,
                   exc, invoked, live, launched, events, held, earlier, tof, grid>>

\* the worker of LOR j of a back kernel: one atomic add per tap
BackWorker(j) ==
    /\ kern.lib # "none"
    /\ op = "back"
    /\ prog[j] < NVox
    /\ LET v == prog[j]
           add == Weight(kern.xs[j], kern.xe[j], v) * kern.p[j]
           d == DevOf(j, kern.n, num_visible_cuda_devices) + 1
       IN  /\ IF kern.lib = "cuda"
              THEN /\ d_img' = [d_img EXCEPT ![d][v] = @ + add]
                   /\ UNCHANGED <<back_img, img_fwd>>
              ELSE IF kern.out = "fresh"
              THEN /\ back_img' = [back_img EXCEPT ![v] = @ + add]
                   /\ UNCHANGED <<d_img, img_fwd>>
              ELSE /\ IF v + 1 <= Len(img_fwd)
                      THEN img_fwd' = [img_fwd EXCEPT ![v + 1] = @ + add]
                      ELSE UNCHANGED img_fwd
                   /\ UNCHANGED <<d_img, back_img>>
           /\ prog' = [prog EXCEPT ![j] = NextTap(kern.xs[j], kern.xe[j], v + 1)]
    /\ UNCHANGED <<envvars, modvars, argvars, pc, ic, i, kern, result, out_shape, out_dtype, exc,
                   invoked, live, launched, events, writes, held, earlier, tof, grid>>

Worker == \E j \in 1 .. Len(prog) : FwdWorker(j) \/ BackWorker(j)

\* a kernel that reads or writes past the end of an array may end the process
KernelCrash ==
    /\ kern.lib # "none"
    /\ kern.oob
    /\ pc' = "aborted"
    /\ kern' = NoKernel
    /\ prog' = <<>>
    /\ UNCHANGED <<envvars, modvars, argvars, img_fwd, back_img, ic, i, d_img, result, out_shape, out_dtype,
                   exc, invoked, live, launched, events, writes, held, earlier, tof, grid>>

\* an exception leaves the call
Raise(e) ==
    /\ pc' = "raised"
    /\ exc' = e
    /\ UNCHANGED <<kern, prog, invoked>>

\* xstart.shape: (nLORs, 3), or 1-d when the size is not a multiple of 3
xstart_shape == IF defect = "xstart_size" THEN <<3 * nLORs + 1>> ELSE <<nLORs, 3>>

\* img.shape / img_shape: the image is a line of NVox voxels
img_shape == <<NVox, 1, 1>>

\* mutant: the output of a forward projection has the shape of xstart
fwd_shape_full == xstart_shape

\* xstart.shape[:-1]
fwd_shape == SubSeq(xstart_shape, 1, Len(xstart_shape) - 1)

\* the shape given to np.zeros / cp.zeros
out_buffer_shape == IF op = "fwd" THEN fwd_shape ELSE img_shape

\* dtype = np.float32 / cp.float32 of the output buffer
zeros_dtype == "float32"

\* number of entries of an array of shape sh
RECURSIVE Size(_)
Size(sh) == IF sh = <<>> THEN 1 ELSE Head(sh) * Size(Tail(sh))

\* size of np.zeros(xstart.shape[:-1]): a 1-d xstart gives a 0-d array
OutSize == Size(fwd_shape)

(***************************************************************************)
(* Device-native branch: is_cuda_array(primary).                           *)
(***************************************************************************)
NativeLaunch ==
    /\ pc = "entry"
    /\ is_cuda_array(primary)
    /\ IF ~cp_defined \/ ~kernels_defined
       THEN /\ Raise("NameError")
            /\ UNCHANGED <<img_fwd, back_img, result, out_shape, out_dtype>>
       ELSE /\ IF op = "fwd"
               THEN /\ img_fwd' = Zeros(OutSize)
                    /\ UNCHANGED back_img
               ELSE /\ back_img' = ZeroImg
                    /\ UNCHANGED img_fwd
            /\ Launch("raw", xstart, xend, 0, nLORs,
                      IF op = "fwd" THEN Zeros(nLORs) ELSE img_fwd, OutSize)
            /\ pc' = "sync"
            /\ exc' = "none"
            /\ result' = CupyArr(0)
            /\ out_shape' = out_buffer_shape
            /\ out_dtype' = zeros_dtype
    /\ UNCHANGED <<envvars, modvars, argvars, ic, i, d_img, live, launched, events,
                   writes, held, earlier, tof, grid>>

\* mutant: the call goes on without waiting for the kernel
NativeSync_nowait ==
    /\ pc = "sync"
    /\ pc' = "convert"
    /\ UNCHANGED <<envvars, modvars, argvars, img_fwd, back_img, ic, i, d_img, kern, prog,
                   result, out_shape, out_dtype, exc, invoked, live, launched, events, writes, held, earlier, tof, grid>>

\* cp.cuda.Device().synchronize()
NativeSync ==
    /\ pc = "sync"
    /\ AllDone
    /\ pc' = "convert"
    /\ kern' = NoKernel
    /\ prog' = <<>>
    /\ UNCHANGED <<envvars, modvars, argvars, img_fwd, back_img, ic, i, d_img, result, out_shape, out_dtype,
                   exc, invoked, live, launched, events, writes, held, earlier, tof, grid>>

(***************************************************************************)
(* Hybrid branch: host arrays, num_visible_cuda_devices > 0.               *)
(***************************************************************************)
\* lib_parallelproj_cuda.copy_float_array_to_all_devices(x, num_voxel)
copy_float_array_to_all_devices(x) == [d \in 1 .. num_visible_cuda_devices |-> x]

\* lib_parallelproj_cuda.sum_float_arrays_on_first_device(d, num_voxel)
sum_float_arrays_on_first_device(d) ==
    [d EXCEPT ![1] = [v \in Voxels |-> SumTo([k \in 1 .. Len(d) |-> d[k][v]], Len(d))]]

\* lib_parallelproj_cuda.get_float_array_from_device(d, num_voxel, 0, h)
get_float_array_from_device(d, i_dev) == d[i_dev + 1]

\* the arguments of the library call of chunk c
\* mutant: every chunk takes its start points from the start of xstart
chunk_xstart_start(c) == Slice(xstart, 0, ic[c + 2] - ic[c + 1])

chunk_xstart(c) == Slice(xstart, ic[c + 1], ic[c + 2])

\* mutant: every chunk takes its end points from the start of xend
chunk_xend_start(c) == Slice(xend, 0, ic[c + 2] - ic[c + 1])

chunk_xend(c) == Slice(xend, ic[c + 1], ic[c + 2])
\* mutant: every chunk writes at the start of the output
chunk_out_start(c) == 0

chunk_out(c) == ic[c + 1]

\* mutant: every chunk reads the payload from its start
chunk_p_start(c) == Slice(img_fwd, 0, ic[c + 2] - ic[c + 1])

chunk_p(c) == Slice(img_fwd, ic[c + 1], ic[c + 2])
chunk_nlors(c) == ic[c + 2] - ic[c + 1]

\* what evaluating the arguments of a library call raises, or "none"
ArgError(reshapes) ==
    IF ~np_asarray_ok(other) THEN "TypeError"
    ELSE IF reshapes /\ defect = "xstart_size" THEN "ValueError"
    ELSE IF defect = "origin_ndim" THEN "ArgumentError"
    ELSE "none"

\* np.zeros, copy_float_array_to_all_devices, calc_chunks
CopyToAllDevices ==
    /\ pc = "entry"
    /\ ~is_cuda_array(primary)
    /\ num_visible_cuda_devices > 0
    /\ IF op = "fwd"
       THEN /\ img_fwd' = Zeros(OutSize)
            /\ d_img' = copy_float_array_to_all_devices(img)
            /\ UNCHANGED back_img
       ELSE /\ back_img' = ZeroImg
            /\ d_img' = copy_float_array_to_all_devices(ZeroImg)
            /\ UNCHANGED img_fwd
    /\ result' = NumpyArr
    /\ out_shape' = out_buffer_shape
    /\ out_dtype' = zeros_dtype
    /\ live' = live + 1
    /\ events' = Append(events, "copy_float_array_to_all_devices")
    /\ ic' = calc_chunks(nLORs, num_chunks)
    /\ i' = 0
    /\ pc' = "chunk"
    /\ UNCHANGED <<envvars, modvars, argvars, kern, prog, exc, invoked, launched, writes,
                   held, earlier, tof, grid>>

\* one iteration of the chunk loop: the library call starts
ChunkCall ==
    /\ pc = "chunk"
    /\ i < num_chunks
    /\ IF ArgError(TRUE) # "none"
       THEN /\ Raise(ArgError(TRUE))
            /\ UNCHANGED <<launched, events>>
       ELSE /\ Launch("cuda", chunk_xstart(i), chunk_xend(i), chunk_out(i), chunk_nlors(i),
                      IF op = "fwd" THEN Zeros(chunk_nlors(i)) ELSE chunk_p(i),
                      Len(img_fwd))
            /\ launched' = Append(launched, <<ic[i + 1], ic[i + 2]>>)
            /\ events' = Append(events, "joseph3d_cuda")
            /\ pc' = "in_chunk"
            /\ exc' = "none"
    /\ UNCHANGED <<envvars, modvars, argvars, img_fwd, back_img, ic, i, d_img, result, out_shape, out_dtype,
                   live, writes, held, earlier, tof, grid>>

\* mutant: the replicas are set to zero again when the call of a chunk returns
ChunkReturn_reset ==
    /\ pc = "in_chunk"
    /\ AllDone
    /\ i' = i + 1
    /\ pc' = "chunk"
    /\ kern' = NoKernel
    /\ prog' = <<>>
    /\ d_img' = IF op = "back" THEN copy_float_array_to_all_devices(ZeroImg) ELSE d_img
    /\ events' = Append(events, "returned")
    /\ UNCHANGED <<envvars, modvars, argvars, img_fwd, back_img, ic, result, out_shape, out_dtype, exc,
                   invoked, live, launched, writes, held, earlier, tof, grid>>

\* the library call returns when its kernels have completed
ChunkReturn ==
    /\ pc = "in_chunk"
    /\ AllDone
    /\ i' = i + 1
    /\ pc' = "chunk"
    /\ kern' = NoKernel
    /\ prog' = <<>>
    /\ events' = Append(events, "returned")
    /\ UNCHANGED <<envvars, modvars, argvars, img_fwd, back_img, ic, d_img, result, out_shape, out_dtype, exc,
                   invoked, live, launched, writes, held, earlier, tof, grid>>

\* mutant: the replicas are not summed
SumOnFirst_skipped ==
    /\ pc = "chunk"
    /\ i = num_chunks
    /\ op = "back"
    /\ events' = Append(events, "sum_float_arrays_on_first_device")
    /\ pc' = "get"
    /\ UNCHANGED <<envvars, modvars, argvars, img_fwd, back_img, ic, i, d_img, kern, prog,
                   result, out_shape, out_dtype, exc, invoked, live, launched, writes, held, earlier, tof, grid>>

\* mutant: the sum is inside the loop, after a chunk
SumOnFirst_in_loop ==
    /\ pc = "chunk"
    /\ i > 0
    /\ op = "back"
    /\ d_img' = sum_float_arrays_on_first_device(d_img)
    /\ events' = Append(events, "sum_float_arrays_on_first_device")
    /\ pc' = "get"
    /\ UNCHANGED <<envvars, modvars, argvars, img_fwd, back_img, ic, i, kern, prog,
                   result, out_shape, out_dtype, exc, invoked, live, launched, writes, held, earlier, tof, grid>>

\* back: sum_float_arrays_on_first_device after the loop
SumOnFirst ==
    /\ pc = "chunk"
    /\ i = num_chunks
    /\ op = "back"
    /\ d_img' = sum_float_arrays_on_first_device(d_img)
    /\ events' = Append(events, "sum_float_arrays_on_first_device")
    /\ pc' = "get"
    /\ UNCHANGED <<envvars, modvars, argvars, img_fwd, back_img, ic, i, kern, prog,
                   result, out_shape, out_dtype, exc, invoked, live, launched, writes, held, earlier, tof, grid>>

\* mutant: the image is read from the last device
GetFromDevice_last ==
    /\ pc = "get"
    /\ back_img' = get_float_array_from_device(d_img, num_visible_cuda_devices - 1)
    /\ events' = Append(events, "get_float_array_from_device")
    /\ pc' = "free"
    /\ UNCHANGED <<envvars, modvars, argvars, img_fwd, ic, i, d_img, kern, prog, result, out_shape, out_dtype,
                   exc, invoked, live, launched, writes, held, earlier, tof, grid>>

\* back: get_float_array_from_device(d_back_img, num_voxel, 0, back_img)
GetFromDevice ==
    /\ pc = "get"
    /\ back_img' = get_float_array_from_device(d_img, 0)
    /\ events' = Append(events, "get_float_array_from_device")
    /\ pc' = "free"
    /\ UNCHANGED <<envvars, modvars, argvars, img_fwd, ic, i, d_img, kern, prog, result, out_shape, out_dtype,
                   exc, invoked, live, launched, writes, held, earlier, tof, grid>>

\* mutant: a forward projection frees the replicas inside the loop, after a chunk
FreeAll_in_loop ==
    /\ \/ pc = "chunk" /\ i > 0 /\ op = "fwd" /\ d_img # NoHandle
       \/ pc = "free"
    /\ d_img' = NoHandle
    /\ live' = live - 1
    /\ events' = Append(events, "free_float_array_on_all_devices")
    /\ pc' = IF pc = "chunk" /\ i < num_chunks THEN "chunk" ELSE "convert"
    /\ UNCHANGED <<envvars, modvars, argvars, img_fwd, back_img, ic, i, kern, prog,
                   result, out_shape, out_dtype, exc, invoked, launched, writes, held, earlier, tof, grid>>

\* free_float_array_on_all_devices: after the loop (fwd), after the copy (back)
FreeAll ==
    /\ \/ pc = "chunk" /\ i = num_chunks /\ op = "fwd"
       \/ pc = "free"
    /\ d_img' = NoHandle
    /\ live' = live - 1
    /\ events' = Append(events, "free_float_array_on_all_devices")
    /\ pc' = "convert"
    /\ UNCHANGED <<envvars, modvars, argvars, img_fwd, back_img, ic, i, kern, prog,
                   result, out_shape, out_dtype, exc, invoked, launched, writes, held, earlier, tof, grid>>

(***************************************************************************)
(* OpenMP branch: host arrays, no visible CUDA device.                     *)
(***************************************************************************)
CpuCall ==
    /\ pc = "entry"
    /\ ~is_cuda_array(primary)
    /\ ~(num_visible_cuda_devices > 0)
    /\ IF op = "fwd"
       THEN /\ img_fwd' = Zeros(OutSize)
            /\ UNCHANGED back_img
       ELSE /\ back_img' = ZeroImg
            /\ UNCHANGED img_fwd
    /\ IF ArgError(FALSE) # "none"
       THEN Raise(ArgError(FALSE))
       ELSE /\ Launch("c", xstart, xend, 0, nLORs,
                      IF op = "fwd" THEN Zeros(nLORs) ELSE img_fwd, OutSize)
            /\ pc' = "in_cpu"
            /\ exc' = "none"
    /\ result' = NumpyArr
    /\ out_shape' = out_buffer_shape
    /\ out_dtype' = zeros_dtype
    /\ UNCHANGED <<envvars, modvars, argvars, ic, i, d_img, live, launched, events,
                   writes, held, earlier, tof, grid>>

CpuReturn ==
    /\ pc = "in_cpu"
    /\ AllDone
    /\ pc' = "convert"
    /\ kern' = NoKernel
    /\ prog' = <<>>
    /\ UNCHANGED <<envvars, modvars, argvars, img_fwd, back_img, ic, i, d_img, result, out_shape, out_dtype,
                   exc, invoked, live, launched, events, writes, held, earlier, tof, grid>>

(***************************************************************************)
(* return xp.asarray(out, device = array_api_compat.device(primary))       *)
(***************************************************************************)
\* mutant: the output buffer is returned as it is
xp_asarray_noconvert(buf, x) == buf

\* xp = get_namespace(x); xp.asarray(buf, device = device(x))
xp_asarray(buf, x) == [ns |-> x.ns, dev |-> x.dev]

Return ==
    /\ pc = "convert"
    /\ result' = xp_asarray(result, primary)
    /\ UNCHANGED <<out_shape, out_dtype>>
    /\ pc' = "returned"
    /\ UNCHANGED <<envvars, modvars, argvars, img_fwd, back_img, ic, i, d_img, kern, prog,
                   exc, invoked, live, launched, events, writes, held, earlier, tof, grid>>

\* the caller keeps the forward projections of its valid single-framework calls,
\* with their inputs, to back project along the same LORs afterwards
KeptForAdjoint ==
    /\ pc = "returned"
    /\ op = "fwd"
    /\ defect = "none"
    /\ other = primary
    /\ env.smi /\ env.cupy
    /\ primary \in NumericPrimaries(env)

\* the frame of the call is gone
FrameGone ==
    /\ pc' = "idle"
    /\ op' = "fwd"
    /\ xstart' = <<>>
    /\ xend' = <<>>
    /\ img' = ZeroImg
    /\ img_fwd' = <<>>
    /\ back_img' = ZeroImg
    /\ num_chunks' = 1
    /\ primary' = NumpyArr
    /\ other' = NumpyArr
    /\ defect' = "none"
    /\ nLORs' = 0
    /\ ic' = <<>>
    /\ i' = 0
    /\ d_img' = NoHandle
    /\ kern' = NoKernel
    /\ prog' = <<>>
    /\ result' = NoArray
    /\ out_shape' = <<>>
    /\ out_dtype' = "none"
    /\ exc' = "none"
    /\ invoked' = {}
    /\ launched' = <<>>
    /\ events' = <<>>
    /\ writes' = <<>>
    /\ UNCHANGED <<envvars, modvars, live, tof, grid>>

\* the caller takes the result (or handles the exception)
Release ==
    /\ pc \in {"returned", "raised"}
    /\ FrameGone
    /\ held' = IF KeptForAdjoint
               THEN [set |-> TRUE, xstart |-> xstart, xend |-> xend, img |-> img,
                     img_fwd |-> img_fwd, primary |-> primary]
               ELSE NoHeld
    /\ earlier' = NoEarlier

\* the caller keeps the result of a valid forward projection and its inputs, to
\* make the same call once more
KeepForRepeat ==
    /\ pc = "returned"
    /\ op = "fwd"
    /\ defect = "none"
    /\ ~earlier.set
    /\ FrameGone
    /\ held' = NoHeld
    /\ earlier' = [set |-> TRUE, xstart |-> xstart, xend |-> xend, img |-> img,
                   num_chunks |-> num_chunks, primary |-> primary, other |-> other,
                   img_fwd |-> img_fwd, result |-> result]

\* the same forward projection once more: same inputs, same num_chunks, in the
\* same process
CallAgain ==
    /\ pc = "idle"
    /\ earlier.set
    /\ Enter(FwdInput(earlier.xstart, earlier.xend, earlier.img, earlier.num_chunks,
                      earlier.primary, earlier.other, "none"))
    /\ UNCHANGED <<held, earlier>>

Next ==
    \/ ImportModule
    \/ Call
    \/ CallAdjoint
    \/ NativeLaunch
    \/ NativeSync
    \/ CopyToAllDevices
    \/ ChunkCall
    \/ ChunkReturn
    \/ SumOnFirst
    \/ GetFromDevice
    \/ FreeAll
    \/ CpuCall
    \/ CpuReturn
    \/ Worker
    \/ KernelCrash
    \/ Return
    \/ Release
    \/ KeepForRepeat
    \/ CallAgain

Spec == Init /\ [][Next]_vars

(***************************************************************************)
(* The TOF sinogram forward projector of one LOR, as a function of its     *)
(* inputs.  Lengths along the LOR are counted in half voxels from the      *)
(* LOR's midpoint; weights are counted in units of 1 / TofUnit.            *)
(***************************************************************************)
MaxTofHalfBins == 2

Abs(a) == IF a < 0 THEN 0 - a ELSE a

\* erf(x / (sigma * sqrt(2))) on the grid, times half the unit: odd, monotone,
\* saturated from three grid points on
ErfQ(x) ==
    IF x <= -3 THEN -6
    ELSE IF x = -2 THEN -5
    ELSE IF x = -1 THEN -4
    ELSE IF x = 0 THEN 0
    ELSE IF x = 1 THEN 4
    ELSE IF x = 2 THEN 5
    ELSE 6

\* the distance from which ErfQ is saturated
ErfQSupport == CHOOSE r \in 0 .. 6 :
    /\ ErfQ(r) = ErfQ(r + 1)
    /\ \A q \in 0 .. 6 : ErfQ(q) = ErfQ(q + 1) => r <= q

\* the weight of a whole TOF kernel
TofUnit == ErfQ(ErfQSupport) - ErfQ(0 - ErfQSupport)

\* signed distance of the tap at voxel v from the midpoint of LOR (s, e)
tof_t(s, e, v) == 2 * v - (s + e)

\* centre t_b of TOF bin b: bins of width 2 * half, shifted by the centre offset
tof_center(b, half, offset) == b * 2 * half + offset

\* mutant: the Gaussian sampled at the bin centre, times the bin width
tof_weight_sampled(t, b, half, offset) ==
    half * (ErfQ(t - tof_center(b, half, offset) + 1)
            - ErfQ(t - tof_center(b, half, offset) - 1))

\* W(t, b): the Gaussian integrated over the bin, a difference of two erf values
tof_weight(t, b, half, offset) ==
    ErfQ(t - tof_center(b, half, offset) + half)
    - ErfQ(t - tof_center(b, half, offset) - half)

\* bins further than n_sigmas * sigma + w / 2 from the tap are skipped
tof_skipped(t, b, half, offset, cut) == Abs(t - tof_center(b, half, offset)) > cut + half

RECURSIVE TofLineSum(_, _, _, _, _)
TofLineSum(a, b, v, s, e) ==
    IF v < 0 THEN 0
    ELSE (IF tof_skipped(tof_t(s, e, v), b, a.half, a.offset, a.cut) THEN 0
          ELSE Weight(s, e, v) * a.img[v] * tof_weight(tof_t(s, e, v), b, a.half, a.offset))
         + TofLineSum(a, b, v - 1, s, e)

\* joseph3d_fwd_tof_sino for one LOR: one value per TOF bin, bins
\* -half_bins .. half_bins
joseph3d_fwd_tof_sino(a) ==
    [b \in (0 - a.half_bins) .. a.half_bins |-> TofLineSum(a, b, NVox - 1, a.xstart, a.xend)]

TofInputs ==
    [xstart : Starts, xend : Ends, img : [Voxels -> ImgVals], half : 1 .. 2,
     offset : -1 .. 1, half_bins : 0 .. MaxTofHalfBins, cut : {1, ErfQSupport}]

TofInit ==
    /\ Unloaded
    /\ env = [smi |-> FALSE, cupy |-> FALSE, gpus |-> 0]
    /\ \E a \in TofInputs : tof = [set |-> TRUE, done |-> FALSE, args |-> a]
    /\ grid = NoGrid

TofFrame ==
    UNCHANGED <<envvars, modvars, argvars, pc, img_fwd, back_img, ic, i, d_img, kern, prog,
                result, out_shape, out_dtype, exc, invoked, live, launched, events, writes,
                held, earlier, grid>>

TofCall ==
    /\ tof.set
    /\ ~tof.done
    /\ tof' = [set |-> TRUE, done |-> TRUE, args |-> tof.args,
               img_fwd_tof |-> joseph3d_fwd_tof_sino(tof.args)]
    /\ TofFrame

TofRelease ==
    /\ tof.set
    /\ tof.done
    /\ tof' = NoTof
    /\ TofFrame

TofNext ==
    \/ TofCall
    \/ TofRelease

TofSpec == TofInit /\ [][TofNext]_vars

(***************************************************************************)
(* The launch geometry of the raw kernels, as a function of nLORs and      *)
(* threadsperblock.                                                        *)
(***************************************************************************)
MaxGridLORs == 12
MaxThreadsPerBlock == 8

\* mutant: the quotient rounded down
math_ceil_floor(n, t) == n \div t

\* math.ceil(n / t) for integers n >= 0, t >= 1
math_ceil(n, t) == IF n % t = 0 THEN n \div t ELSE (n \div t) + 1

\* the grid and the block of the launch
grid_dim(n, t) == <<math_ceil(n, t)>>
block_dim(t) == <<t>>

GridInputs == [nLORs : 0 .. MaxGridLORs, threadsperblock : 1 .. MaxThreadsPerBlock]

GridInit ==
    /\ Unloaded
    /\ env = [smi |-> TRUE, cupy |-> TRUE, gpus |-> 1]
    /\ tof = NoTof
    /\ \E a \in GridInputs : grid = [set |-> TRUE, done |-> FALSE, args |-> a]

GridFrame ==
    UNCHANGED <<envvars, modvars, argvars, pc, img_fwd, back_img, ic, i, d_img, kern, prog,
                result, out_shape, out_dtype, exc, invoked, live, launched, events, writes,
                held, earlier, tof>>

\* _joseph3d_*_cuda_kernel((math.ceil(nLORs / threadsperblock), ), (threadsperblock, ), ...)
GridLaunch ==
    /\ grid.set
    /\ ~grid.done
    /\ grid' = [set |-> TRUE, done |-> TRUE, args |-> grid.args,
                grid |-> grid_dim(grid.args.nLORs, grid.args.threadsperblock),
                block |-> block_dim(grid.args.threadsperblock)]
    /\ GridFrame

GridRelease ==
    /\ grid.set
    /\ grid.done
    /\ grid' = NoGrid
    /\ GridFrame

GridNext ==
    \/ GridLaunch
    \/ GridRelease

GridSpec == GridInit /\ [][GridNext]_vars

(***************************************************************************)
(* Properties.                                                             *)
(***************************************************************************)
Dot(a, b) == SumTo([k \in 1 .. Len(a) |-> a[k] * b[k]], Len(a))
DotImg(x, y) == SumVox([v \in Voxels |-> x[v] * y[v]], NVox - 1)
Count(s, e) == Cardinality({t \in 1 .. Len(s) : s[t] = e})

\* the call went through the multi-GPU library (host input, visible devices)
Hybrid == events # <<>>

\* the contribution of LOR k with payload y to voxel v
Contribution(k, y, v) == Weight(xstart[k], xend[k], v) * y[k]

\* C1: adjointness.  When the back projection of a payload y along the LORs
\* of a forward projection A x has returned (same xstart, xend, image shape,
\* same backend), <A x, y> = <x, A^T y>.
C1_Adjointness ==
    (pc = "returned" /\ op = "back" /\ held.set
        /\ xstart = held.xstart /\ xend = held.xend)
    => Dot(held.img_fwd, img_fwd) = DotImg(held.img, back_img)

C1_Witness ==
    /\ pc = "returned" /\ op = "back" /\ held.set
    /\ xstart = held.xstart /\ xend = held.xend
    /\ Hybrid /\ num_chunks > 1 /\ nLORs > 1
    /\ img_fwd[nLORs] > 0
    /\ DotImg(held.img, back_img) > 1

\* C2: back projection is race-free.  While the workers of a back kernel
\* run in any order, the image they share holds exactly the contributions
\* of the taps already added, and the image returned is the sum of all
\* per-LOR contributions.
C2_RaceFree ==
    /\ (op = "back" /\ kern.lib \in {"c", "raw"} /\ ~kern.oob) =>
           \A v \in Voxels :
               back_img[v] = SumTo([k \in 1 .. nLORs |->
                                       IF v < prog[k] THEN Contribution(k, img_fwd, v)
                                       ELSE 0], nLORs)
    /\ (op = "back" /\ pc = "returned" /\ defect = "none") =>
           \A v \in Voxels :
               back_img[v] = SumTo([k \in 1 .. nLORs |-> Contribution(k, img_fwd, v)],
                                   nLORs)

C2_Witness ==
    /\ op = "back" /\ pc = "returned" /\ defect = "none"
    /\ nLORs > 1 /\ num_chunks = 1
    /\ \E v \in Voxels :
          /\ \A k \in 1 .. nLORs : Contribution(k, img_fwd, v) > 0
          /\ back_img[v] > 1

\* C3: backend routing.  A primary input on a CUDA device goes to the raw
\* kernel; a host input goes to the CUDA library when a CUDA device is
\* visible and to the OpenMP library otherwise.  Every call with valid inputs
\* (here: all arrays in the framework and on the device of the primary input)
\* invokes exactly one backend, the one of this rule.
C3_Backend ==
    IF primary.dev.type = "cuda" THEN "raw"
    ELSE IF num_visible_cuda_devices > 0 THEN "cuda"
    ELSE "c"

C3_ExactlyOne ==
    (defect = "none" /\ other = primary /\ pc \in {"returned", "raised"})
        => invoked = {C3_Backend}

\* C4: calc_chunks returns num_chunks + 1 nondecreasing boundaries from 0 to
\* nLORs, the first (nLORs mod num_chunks) chunks one LOR longer than the
\* others (10 LORs in 3 chunks: 0, 4, 7, 10), and the kernels are launched
\* on the chunks one after the other in index order.
C4_Example == calc_chunks(10, 3) = <<0, 4, 7, 10>>

C4_Chunks ==
    /\ C4_Example
    /\ ic # <<>> =>
        /\ Len(ic) = num_chunks + 1
        /\ ic[1] = 0
        /\ ic[num_chunks + 1] = nLORs
        /\ \A c \in 1 .. num_chunks :
              /\ ic[c] <= ic[c + 1]
              /\ ic[c + 1] - ic[c] = (nLORs \div num_chunks)
                                       + (IF c - 1 < nLORs % num_chunks THEN 1 ELSE 0)
        /\ \A t \in 1 .. Len(launched) : launched[t] = <<ic[t], ic[t + 1]>>
        /\ pc = "chunk" => Len(launched) = i
        /\ pc = "in_chunk" => Len(launched) = i + 1
        /\ pc \in {"get", "free", "convert", "returned"} => Len(launched) = num_chunks

C4_Witness ==
    /\ pc = "returned"
    /\ ic = <<0, 1, 2, 2>>
    /\ launched = <<<<0, 1>>, <<1, 2>>, <<2, 2>>>>

\* C5: hybrid forward projection.  The image is copied to the devices once
\* per call; while chunk i runs (and between chunks) the entries before the
\* chunk have been written once, the entries after it not at all, and the
\* entries of the chunk at most once; after the loop every entry has been
\* written once and the output is the forward projection of all LORs.
C5_HybridFwd ==
    (Hybrid /\ op = "fwd" /\ defect = "none" /\ pc # "raised") =>
        /\ Count(events, "copy_float_array_to_all_devices") = 1
        /\ pc \in {"chunk", "in_chunk"} =>
              \A k \in 1 .. nLORs :
                  /\ k <= ic[i + 1] => writes[k] = 1
                  /\ (pc = "chunk" /\ k > ic[i + 1]) => writes[k] = 0
                  /\ (pc = "in_chunk" /\ k > ic[i + 2]) => writes[k] = 0
                  /\ (pc = "in_chunk" /\ k > ic[i + 1] /\ k <= ic[i + 2]) =>
                         writes[k] = (IF prog[k - ic[i + 1]] = NVox THEN 1 ELSE 0)
        /\ pc \in {"convert", "returned"} =>
              /\ \A k \in 1 .. nLORs : writes[k] = 1
              /\ img_fwd = [k \in 1 .. nLORs |->
                               LineSum(xstart[k], xend[k], img, NVox - 1)]

C5_Witness ==
    /\ Hybrid /\ op = "fwd" /\ defect = "none" /\ pc = "returned"
    /\ num_chunks > 1 /\ nLORs > 1
    /\ img_fwd[1] # img_fwd[nLORs]
    /\ img_fwd[nLORs] > 0

\* C6: order of hybrid back projection: allocate the replicas, run the
\* kernel on every chunk, sum onto device 0, copy device 0 to the host,
\* free.  The library calls made so far are always a prefix of that
\* sequence: no sum before the last chunk's call has returned, no copy
\* before the sum.
RECURSIVE ChunkEvents(_)
ChunkEvents(n) ==
    IF n = 0 THEN <<>> ELSE <<"joseph3d_cuda", "returned">> \o ChunkEvents(n - 1)

C6_BackSequence ==
    <<"copy_float_array_to_all_devices">> \o ChunkEvents(num_chunks)
        \o <<"sum_float_arrays_on_first_device", "get_float_array_from_device",
             "free_float_array_on_all_devices">>

C6_Order ==
    (Hybrid /\ op = "back") =>
        /\ Len(events) <= Len(C6_BackSequence)
        /\ events = SubSeq(C6_BackSequence, 1, Len(events))
        /\ Count(events, "sum_float_arrays_on_first_device") > 0 =>
              /\ Count(events, "returned") = num_chunks
              /\ kern = NoKernel
        /\ pc = "returned" => events = C6_BackSequence

C6_Witness ==
    /\ Hybrid /\ op = "back" /\ pc = "returned"
    /\ num_chunks > 1
    /\ num_visible_cuda_devices > 1
    /\ events = C6_BackSequence

\* C7: multi-GPU parity.  In a hybrid back projection the replicas start at
\* zero, the replicas together hold each contribution added so far exactly
\* once, after the reduction device 0 holds all of them, and the image
\* returned is the one a single device accumulates, whatever the number of
\* devices.
C7_TapDone(k, v) ==
    \/ k <= ic[i + 1]
    \/ /\ pc = "in_chunk"
       /\ k <= ic[i + 2]
       /\ v < prog[k - ic[i + 1]]

C7_Replicas(v) == SumTo([d \in 1 .. Len(d_img) |-> d_img[d][v]], Len(d_img))

RECURSIVE C7_OnOneDevice(_, _)
C7_OnOneDevice(k, acc) ==
    IF k > nLORs THEN acc
    ELSE C7_OnOneDevice(k + 1, [v \in Voxels |-> acc[v] + Contribution(k, img_fwd, v)])

C7_Parity ==
    (Hybrid /\ op = "back" /\ defect = "none") =>
        /\ (pc = "chunk" /\ i = 0) => \A d \in 1 .. Len(d_img) : d_img[d] = ZeroImg
        /\ pc \in {"chunk", "in_chunk"} =>
              /\ Len(d_img) = num_visible_cuda_devices
              /\ \A v \in Voxels :
                    C7_Replicas(v) = SumTo([k \in 1 .. nLORs |->
                                               IF C7_TapDone(k, v)
                                               THEN Contribution(k, img_fwd, v) ELSE 0],
                                           nLORs)
        /\ pc \in {"get", "free"} => d_img[1] = C7_OnOneDevice(1, ZeroImg)
        /\ pc \in {"free", "convert", "returned"} => back_img = C7_OnOneDevice(1, ZeroImg)

C7_Witness ==
    /\ Hybrid /\ op = "back" /\ defect = "none" /\ pc = "free"
    /\ num_visible_cuda_devices > 1
    /\ d_img[2] # ZeroImg
    /\ d_img[1] # d_img[2]
    /\ back_img = d_img[1]

\* C8: the device image of a hybrid call is released on every exit path: no
\* call has returned or raised while its replicas are allocated.
C8_Released == pc \in {"returned", "raised"} => d_img = NoHandle

\* C9: inputs that violate a precondition are rejected with a typed failure
\* before any kernel launch and before any device buffer is acquired.
C9_Validated ==
    defect # "none" =>
        /\ invoked = {}
        /\ d_img = NoHandle
        /\ events = <<>>
        /\ pc \notin {"convert", "returned", "aborted"}

\* C10: the array returned is in the framework and on the device of the
\* primary input, whichever backend computed it and wherever the other
\* inputs are.
C10_ResultLocation ==
    pc = "returned" => (result.ns = primary.ns /\ result.dev = primary.dev)

C10_Witness ==
    /\ pc = "returned"
    /\ primary = TorchCuda(1)
    /\ other = TorchCpu
    /\ result = TorchCuda(1)

\* C11: forward projection.  In every state of a valid forward call, under
\* every schedule of the per-LOR workers and every chunking, output entry k
\* has been written at most once and, once written, holds the line integral
\* of LOR k through the image; when the kernels have completed every entry
\* has been written.  The image and its device copies are never written.
C11_Output ==
    (op = "fwd" /\ defect = "none" /\ pc \notin {"idle", "entry", "raised"}) =>
        /\ Len(img_fwd) = nLORs
        /\ \A k \in 1 .. nLORs :
              /\ writes[k] <= 1
              /\ img_fwd[k] = IF writes[k] = 1
                              THEN LineSum(xstart[k], xend[k], img, NVox - 1)
                              ELSE 0
        /\ pc \in {"convert", "returned"} => \A k \in 1 .. nLORs : writes[k] = 1
        /\ \A d \in 1 .. Len(d_img) : d_img[d] = img

C11_ImageReadOnly ==
    (op = "fwd" /\ pc # "idle" /\ pc' # "idle") => img' = img

\* C11 as a property of every state and every step
C11_FwdDeterministic == []C11_Output /\ [][C11_ImageReadOnly]_vars

C11_Witness ==
    /\ op = "fwd" /\ defect = "none" /\ pc = "sync"
    /\ nLORs > 1
    /\ writes[1] = 0
    /\ writes[nLORs] = 1
    /\ img_fwd[nLORs] > 0

\* C12: the adapter never mutates caller arrays.  No step of a call changes
\* xstart, xend or the payload (img for forward, img_fwd for back), although
\* the kernels work on the caller's memory without a copy; the kernels write
\* only the buffer the call allocated.
C12_Frame ==
    (pc # "idle" /\ pc' # "idle") =>
        /\ xstart' = xstart
        /\ xend' = xend
        /\ op = "fwd" => img' = img
        /\ op = "back" => img_fwd' = img_fwd

C13_NoKernelAtReturn ==
    pc \in {"convert", "returned", "raised"} =>
        /\ kern = NoKernel
        /\ (op = "fwd" /\ defect = "none" /\ pc # "raised") =>
               \A k \in 1 .. nLORs : writes[k] = 1

C13_SyncStep ==
    (pc = "sync" /\ pc' \notin {"sync", "aborted"}) =>
        /\ invoked = {"raw"}
        /\ kern.lib = "raw"
        /\ AllDone
        /\ pc' = "convert"

\* C13 as a property of every state and every step
C13_Synchronous == []C13_NoKernelAtReturn /\ [][C13_SyncStep]_vars

C13_Witness ==
    /\ pc = "returned" /\ op = "back" /\ defect = "none"
    /\ invoked = {"raw"}
    /\ nLORs > 1
    /\ \E v \in Voxels : back_img[v] > 1

\* C14: library resolution at module initialisation.  For the C library,
\* and for the CUDA library when nvidia-smi was found (and only then), the
\* name is the value of the library's environment variable when it is set,
\* otherwise what the system loader finds, otherwise None.  When the name is
\* None initialisation fails with ImportError; initialisation completes only
\* from a lookup whose file loads, and no projector is called in a process
\* whose initialisation has not completed.
C14_Lookup ==
    /\ lookup.lib # "none" =>
          /\ lookup.var # "nothing" =>
                lookup.fname = [from |-> "env", holds |-> lookup.var]
          /\ (lookup.var = "nothing" /\ lookup.loader # "nothing") =>
                lookup.fname = [from |-> "loader", holds |-> lookup.loader]
          /\ (lookup.var = "nothing" /\ lookup.loader = "nothing") =>
                fname_is_None(lookup.fname)
          /\ lookup.lib = "cuda" => cuda_present
    /\ lib_cuda_defined => cuda_present
    /\ mod # "ready" => (pc = "idle" /\ invoked = {} /\ result = NoArray)

C14_Load ==
    /\ (mod \in {"lookup_c", "lookup_cuda"} /\ fname_is_None(lookup.fname))
           => mod' = "ImportError"
    /\ (mod # "ready" /\ mod' = "ready")
           => (mod \in {"lookup_c", "lookup_cuda"} /\ lookup.fname.holds = "lib")
    /\ (mod = "lookup_c" /\ mod' = "ready") => ~cuda_present

\* C14 as a property of every state and every step
C14_Resolution == []C14_Lookup /\ [][C14_Load]_vars

C14_Witness ==
    /\ mod = "ImportError"
    /\ lookup.lib = "cuda"
    /\ lookup.var = "nothing" /\ lookup.loader = "nothing"
    /\ fname_is_None(lookup.fname)

\* C15: output shape and type.  For xstart of shape (nLORs, 3) a forward
\* projection returns a float32 array of shape (nLORs,) with nLORs entries,
\* a back projection a float32 array of shape img_shape with one entry per
\* voxel, on every backend and for every num_chunks.
C15_ShapeAndType ==
    (pc = "returned" /\ defect = "none") =>
        /\ out_dtype = "float32"
        /\ op = "fwd" => (out_shape = <<nLORs>> /\ Len(img_fwd) = nLORs)
        /\ op = "back" => (out_shape = img_shape /\ DOMAIN back_img = Voxels)

C15_Witness ==
    /\ pc = "returned" /\ defect = "none" /\ op = "fwd"
    /\ Hybrid /\ num_chunks = MaxChunks
    /\ primary = TorchCpu
    /\ out_shape = <<MaxLORs>>
    /\ out_dtype = "float32"

\* C16: zero input gives exactly zero output.  The forward projection of an
\* image of zeros is zero in every entry and the back projection of a
\* payload of zeros is zero in every voxel, for every LOR batch, backend and
\* num_chunks.
C16_ZeroInZeroOut ==
    (pc = "returned" /\ defect = "none") =>
        /\ (op = "fwd" /\ \A v \in Voxels : img[v] = 0)
               => \A k \in 1 .. Len(img_fwd) : img_fwd[k] = 0
        /\ (op = "back" /\ \A k \in 1 .. Len(img_fwd) : img_fwd[k] = 0)
               => \A v \in Voxels : back_img[v] = 0

C16_Witness ==
    /\ pc = "returned" /\ defect = "none" /\ op = "back"
    /\ Hybrid /\ num_chunks > 1
    /\ nLORs > 1
    /\ \A k \in 1 .. nLORs : img_fwd[k] = 0 /\ Weight(xstart[k], xend[k], 0) > 0
    /\ \A v \in Voxels : back_img[v] = 0

\* LOR k does not meet the image: both its end points are outside
Outside(k) == xstart[k] \notin Voxels /\ xend[k] \notin Voxels

\* C17: a LOR that does not meet the image contributes nothing.  In the
\* result of a forward projection its entry is exactly zero; the result of
\* a back projection is the sum of the contributions of the other LORs,
\* whatever the payload of this one.
C17_OutsideContributesNothing ==
    (pc = "returned" /\ defect = "none") =>
        /\ op = "fwd" => \A k \in 1 .. nLORs : Outside(k) => img_fwd[k] = 0
        /\ op = "back" =>
              \A v \in Voxels :
                  back_img[v] = SumTo([k \in 1 .. nLORs |->
                                          IF Outside(k) THEN 0
                                          ELSE Contribution(k, img_fwd, v)], nLORs)

C17_Witness ==
    /\ pc = "returned" /\ defect = "none" /\ op = "back"
    /\ Hybrid /\ num_chunks > 1
    /\ nLORs > 1
    /\ ~Outside(1) /\ img_fwd[1] = 1
    /\ Outside(nLORs) /\ img_fwd[nLORs] = 1
    /\ \E v \in Voxels : back_img[v] > 0


\* C18: the sum over the TOF bins equals the non-TOF projection.  For a LOR
\* whose TOF bins cover every tap with the whole kernel, and with a cut-off at
\* or beyond the kernel's support, the sum over b of img_fwd_tof[b] is the
\* non-TOF forward projection of the LOR (times the weight unit); for a unit
\* point source this is the length of the LOR's step through the voxel.
RECURSIVE SumBins(_, _, _)
SumBins(f, b, lo) == IF b < lo THEN 0 ELSE f[b] + SumBins(f, b - 1, lo)

TofTaps(a) == {v \in Voxels : Weight(a.xstart, a.xend, v) * a.img[v] > 0}

TofCovers(a) ==
    /\ a.cut >= ErfQSupport
    /\ \A v \in TofTaps(a) :
          Abs(tof_t(a.xstart, a.xend, v) - a.offset) + ErfQSupport
              <= a.half_bins * 2 * a.half + a.half

C19_Deterministic ==
    (pc = "returned" /\ earlier.set)
        => /\ img_fwd = earlier.img_fwd
           /\ result = earlier.result

\* a repeated chunked projection of several LORs on the hybrid backend has
\* returned, with an output that is neither zero nor constant
C19_Witness ==
    /\ pc = "returned" /\ earlier.set
    /\ img_fwd = earlier.img_fwd
    /\ nLORs > 1
    /\ \E k \in 1 .. nLORs : img_fwd[k] > 0
    /\ \E k \in 1 .. nLORs : img_fwd[k] # img_fwd[1]
    /\ Hybrid /\ num_chunks > 1

\* C20: device-native launch geometry.  The raw kernel is launched with
\* ceil(nLORs / threadsperblock) blocks of threadsperblock threads: for every
\* nLORs >= 1 and threadsperblock >= 1 the number of threads is at least nLORs
\* and exceeds it by less than threadsperblock, so every LOR has exactly one
\* thread and every block holds the thread of some LOR.
Threads == grid.grid[1] * grid.block[1]

\* the global index of thread t of block b
ThreadId(b, t) == b * grid.block[1] + t

C20_LaunchGeometry ==
    (grid.set /\ grid.done /\ grid.args.nLORs >= 1)
        => /\ grid.block[1] = grid.args.threadsperblock
           /\ Threads >= grid.args.nLORs
           /\ Threads - grid.args.nLORs < grid.args.threadsperblock
           /\ \A k \in 0 .. grid.args.nLORs - 1 :
                 Cardinality({bt \in (0 .. grid.grid[1] - 1) \X (0 .. grid.block[1] - 1) :
                                  ThreadId(bt[1], bt[2]) = k}) = 1
           /\ \A b \in 0 .. grid.grid[1] - 1 :
                 \E t \in 0 .. grid.block[1] - 1 : ThreadId(b, t) < grid.args.nLORs

\* several blocks, the last one partly idle
C20_Witness ==
    /\ grid.set /\ grid.done
    /\ grid.grid[1] > 1
    /\ grid.args.nLORs % grid.args.threadsperblock # 0
    /\ Threads > grid.args.nLORs
    /\ Threads - grid.args.nLORs < grid.args.threadsperblock

\* C21: in hybrid back projection the device replicas are never reset between
\* chunks.  Each chunk's kernel is given the payload slice of its own LORs;
\* between the calls of the loop, after i chunks, the replicas together hold
\* the contributions of LORs 1 .. ic[i + 1] and nothing else; the image
\* returned holds the contribution of each LOR exactly once for every
\* num_chunks, also when num_chunks > nLORs and some chunks are empty.
C21_Upto(n, v) == SumTo([k \in 1 .. nLORs |->
                            IF k <= n THEN Contribution(k, img_fwd, v) ELSE 0], nLORs)

C21_NoReset ==
    (Hybrid /\ op = "back" /\ defect = "none") =>
        /\ pc = "in_chunk" =>
              /\ kern.n = ic[i + 2] - ic[i + 1]
              /\ \A j \in 1 .. kern.n :
                    /\ kern.p[j] = img_fwd[ic[i + 1] + j]
                    /\ kern.xs[j] = xstart[ic[i + 1] + j]
                    /\ kern.xe[j] = xend[ic[i + 1] + j]
        /\ pc = "chunk" =>
              \A v \in Voxels : C7_Replicas(v) = C21_Upto(ic[i + 1], v)
        /\ pc = "returned" =>
              \A v \in Voxels : back_img[v] = C21_Upto(nLORs, v)

\* more chunks than LORs: two chunks of one LOR each, whose contributions meet
\* in one voxel, and an empty chunk
C21_Witness ==
    /\ Hybrid /\ op = "back" /\ defect = "none" /\ pc = "returned"
    /\ nLORs > 1
    /\ num_chunks > nLORs
    /\ \E c \in 1 .. num_chunks : ic[c] = ic[c + 1]
    /\ \E v \in Voxels :
          /\ \A k \in 1 .. nLORs : Contribution(k, img_fwd, v) > 0
          /\ back_img[v] = C21_Upto(nLORs, v)

\* C22: lifecycle of the device image handle in the hybrid path of joseph3d_fwd
\* and joseph3d_back.  Within one call the first CUDA library call is
\* copy_float_array_to_all_devices and no library call follows
\* free_float_array_on_all_devices, so every call that takes the handle lies
\* between the two and finds the replicas allocated; a call that completes has
\* allocated the handle exactly once and freed it exactly once.
C22_TakesHandle == {"joseph3d_cuda", "sum_float_arrays_on_first_device",
                    "get_float_array_from_device"}

C22_Allocated == Count(events, "copy_float_array_to_all_devices")

C22_Freed == Count(events, "free_float_array_on_all_devices")

C22_Lifecycle ==
    Hybrid =>
        /\ events[1] = "copy_float_array_to_all_devices"
        /\ C22_Allocated = 1
        /\ C22_Freed <= 1
        /\ C22_Freed = 1 => events[Len(events)] = "free_float_array_on_all_devices"
        /\ \A n \in 1 .. Len(events) :
              events[n] \in C22_TakesHandle =>
                  /\ n > 1
                  /\ \A m \in 1 .. n : events[m] # "free_float_array_on_all_devices"
        /\ (C22_Freed = 0) = (d_img # NoHandle)
        /\ kern.lib = "cuda" => Len(d_img) = num_visible_cuda_devices
        /\ pc \in {"get", "free"} => Len(d_img) = num_visible_cuda_devices
        /\ pc = "returned" => (C22_Allocated = 1 /\ C22_Freed = 1 /\ d_img = NoHandle)

\* a chunked forward projection has completed: several kernel calls took the
\* handle between its allocation and its release
C22_Witness ==
    /\ Hybrid /\ pc = "returned"
    /\ num_chunks > 1
    /\ Count(events, "joseph3d_cuda") = num_chunks
    /\ C22_Allocated = 1 /\ C22_Freed = 1
    /\ events[Len(events)] = "free_float_array_on_all_devices"
    /\ op = "fwd"
    /\ \E k \in 1 .. nLORs : img_fwd[k] > 0

\* C23: whenever joseph3d_fwd or joseph3d_back takes the device-native branch
\* (is_cuda_array of the primary input: any cupy array, a torch tensor on a
\* CUDA device), cupy and the raw kernels are defined, i.e. module
\* initialisation found nvidia-smi, a visible CUDA device, cupy and a kernel
\* file; numpy arrays and torch CPU tensors never take this branch.
C23_NativeBranch == pc \notin {"idle", "entry"} /\ is_cuda_array(primary)

C23_NativeDefined ==
    /\ C23_NativeBranch =>
          /\ cp_defined
          /\ kernels_defined
          /\ cuda_present
          /\ num_visible_cuda_devices > 0
          /\ cupy_enabled
    /\ (pc # "idle" /\ primary \in {NumpyArr, TorchCpu}) =>
          /\ "raw" \notin invoked
          /\ exc # "NameError"

\* C24: process-wide backend state after module initialisation.
\* num_visible_cuda_devices > 0 only if nvidia-smi was found and the CUDA
\* library was loaded, so an entry point of the CUDA library is called only in
\* a process where lib_parallelproj_cuda is defined; when nvidia-smi is found
\* and the library reports no visible device, cupy_enabled is false and no raw
\* kernel is loaded; no step of a projector call changes this state.
C24_State ==
    /\ num_visible_cuda_devices > 0 => (cuda_present /\ lib_cuda_defined)
    /\ (events # <<>> \/ "cuda" \in invoked \/ d_img # NoHandle) =>
          (lib_cuda_defined /\ num_visible_cuda_devices > 0)
    /\ (cuda_present /\ lib_cuda_defined /\ num_visible_cuda_devices = 0) =>
          (~cupy_enabled /\ ~kernels_defined)
    /\ kernels_defined => (cupy_enabled /\ num_visible_cuda_devices > 0)

C24_CallStep ==
    (pc # "idle" \/ pc' # "idle") => UNCHANGED <<envvars, modvars>>

C24_ProcessState == []C24_State /\ [][C24_CallStep]_vars

\* nvidia-smi and cupy are there, the CUDA library reports no device: cupy is
\* disabled, no kernel is loaded, and a projection has run on the OpenMP library
C24_Witness ==
    /\ mod = "ready"
    /\ env.smi /\ env.cupy /\ env.gpus = 0
    /\ cuda_present /\ lib_cuda_defined
    /\ num_visible_cuda_devices = 0
    /\ ~cupy_enabled /\ ~kernels_defined
    /\ pc = "returned"
    /\ invoked = {"c"}

=========================================================================
